---- MODULE Spec2Model ----
(***************************************************************************)
(* Batch send orchestrator (old_tui/screens/send.py SendScreen and the     *)
(* api/routers/email.py send stream) over the persistent store             *)
(* (sending/db.py Database).                                               *)
(*                                                                         *)
(* The SendScreen worker is a coroutine on the UI event loop: its only     *)
(* suspension point is `await asyncio.sleep(1)` in the inter-batch delay,  *)
(* so a button or key handler runs only while the worker is scheduled and  *)
(* not yet started, asleep in the delay, or gone.  The provider call       *)
(* blocks the loop.  The worker is still modelled in several steps         *)
(* (begin, loop top, send, wake) so that its positions are observable; the *)
(* handlers are guarded by UiCanRun.                                       *)
(*                                                                         *)
(* Record inserts (add_sent, add_failed_email) are taken to succeed; the   *)
(* Template insert (add_email) may raise, which both callers swallow.      *)
(***************************************************************************)
EXTENDS Integers, Sequences, FiniteSets, TLC

\* ---------------------------------------------------------------- bounds
MaxRecipients == 3
MaxBatchSize == 2
MaxDelay == 2
MaxRuns == 2
MaxTemplates == 3
MaxSentRows == 2
MaxFailedRows == 1
MaxCandidates == 2
MaxNames == 2

\* current_email_id = None
NoEmailId == 0

Outcomes == {"ok", "client_error", "exception"}

\* the outcomes in which the batch is counted as failed
Failures == {"client_error", "exception"}

Min(a, b) == IF a < b THEN a ELSE b

\* ------------------------------------------------------- pure functions

\* a slip: floor instead of ceiling
TotalBatchesFloor(R, b) == Len(R) \div b

\* (len(recipients) + batch_size - 1) // batch_size
TotalBatches(R, b) == (Len(R) + b - 1) \div b

\* recipients[i : i + batch_size], i counted from 0
Batch(R, i, b) == SubSeq(R, i + 1, Min(i + b, Len(R)))

\* the text captured for a failed chunk: e.response["Error"]["Message"] for a
\* ClientError, str(e) for any other exception
ErrorMsg(outcome) == IF outcome = "client_error" THEN "rejected" ELSE "raised"

\* the send mode both callers pass to add_sent
SentTypeArg(bcc) == "bcc"

\* one sent_emails row per recipient of the batch (the add_sent loop)
SentRows(email_id, batch, sent_type) ==
    [k \in 1..Len(batch) |->
        [email_id |-> email_id, sent_to |-> batch[k], sent_type |-> sent_type]]

\* one failed_emails row per recipient of the batch (the add_failed_email loop)
FailedRows(email_id, batch, error_reason) ==
    [k \in 1..Len(batch) |->
        [email_id |-> email_id, recipient |-> batch[k],
         error_reason |-> error_reason, retried |-> FALSE]]

\* a slip: only the first address of a failed batch is kept for retry
FailedEntriesFirstOnly(batch, error_msg) ==
    [k \in 1..Min(1, Len(batch)) |-> [email |-> batch[k], error |-> error_msg]]

\* the entries appended to self.failed_emails for a failed batch
FailedEntries(batch, error_msg) ==
    [k \in 1..Len(batch) |-> [email |-> batch[k], error |-> error_msg]]

\* a slip: the failed list is walked backwards
FailedRecipientsReversed(fl) == [k \in 1..Len(fl) |-> fl[Len(fl) + 1 - k].email]

\* [item["email"] for item in self.failed_emails]
FailedRecipients(fl) == [k \in 1..Len(fl) |-> fl[k].email]

\* ---------------------------------------------------- the provider call

\* an empty configuration string (default_to: str = "")
NoAddress == 0

\* addresses are numbers: the recipients of a run are 1..MaxRecipients, the
\* address of aws.source_email and a configured sender.default_to lie outside
SourceAddress == MaxRecipients + 1
DefaultToAddress == MaxRecipients + 2

\* aws.source_email as the user may write it: "addr" or "Name <addr>"
SourceEmails == {[name |-> n, addr |-> SourceAddress] : n \in {"", "Name"}}

\* the sender configurations: default_to unset or set, either form of source
Senders == [default_to : {NoAddress, DefaultToAddress}, source_email : SourceEmails]

\* parse_source_email: email.utils.parseaddr
ParseSourceEmail(source_email) == <<source_email.name, source_email.addr>>

\* get_email_address: the address without the display name
GetEmailAddress(source_email) == ParseSourceEmail(source_email)[2]

\* config.sender.default_to or get_email_address(source_email)
ToAddress(s) ==
    IF s.default_to # NoAddress THEN s.default_to
    ELSE GetEmailAddress(s.source_email)

\* a slip: the chunk is also the To list in BCC mode
DestinationChunkInTo(batch, bcc, to_address) ==
    [BccAddresses |-> IF bcc THEN batch ELSE <<>>, ToAddresses |-> batch]

\* the Destination argument of ses_client.send_email
Destination(batch, bcc, to_address) ==
    [BccAddresses |-> IF bcc THEN batch ELSE <<>>,
     ToAddresses |-> IF bcc THEN <<to_address>> ELSE batch]

\* _create_message: the To header of the raw message; `recipients` is a
\* parameter of the SendScreen method and is not used
CreateMessageTo(recipients, s) == ToAddress(s)

\* one provider call as the history keeps it
Call(batch, bcc, s, outcome) ==
    [batch |-> batch, outcome |-> outcome,
     destination |-> Destination(batch, bcc, ToAddress(s)),
     to_header |-> CreateMessageTo(batch, s)]

\* ---------------------------------------------------------------- state
VARIABLES
    frontend,              \* which program drives the store: "tui" or "api"
    batch_size,            \* config.batch.batch_size
    delay_seconds,         \* int(config.batch.delay_seconds)
    use_bcc,               \* config.batch.use_bcc
    email_data,            \* app.email_data / the SendRequest body
    configured,            \* ConfigManager.is_configured()
    sender,                \* config.sender.default_to and config.aws.source_email
    tables,                \* the tables of emails.db (sqlite_master)
    is_sending,
    is_paused,
    cancel_requested,
    total_sent,
    total_failed,
    failed_emails,         \* SendScreen.failed_emails
    current_batch_index,
    sending_complete,
    current_email_id,
    disabled,              \* the buttons of the send screen that are disabled
    worker,                \* the SendScreen worker coroutine and its locals
    api,                   \* the API event generator and its locals
    events,                \* the events the API generator has yielded
    emails,                \* table emails
    sent_emails,           \* table sent_emails, in rowid order
    failed_tbl,            \* table failed_emails, in rowid order
    next_uuid,             \* uuid.uuid4(): a fresh id per Email()
    ever_templates,        \* history: ids of every Template row ever inserted
    calls,                 \* history: every provider call, in order
    run,                   \* history: the run in progress (kind, input, ...)
    result                 \* what the last store operation returned, if it was a
                           \* query or a migration

cfgVars == <<frontend, batch_size, delay_seconds, use_bcc, email_data, configured,
             sender>>
screenVars == <<is_sending, is_paused, cancel_requested, total_sent, total_failed,
                failed_emails, current_batch_index, sending_complete,
                current_email_id, disabled>>
apiVars == <<api, events>>
storeVars == <<emails, sent_emails, failed_tbl, next_uuid, ever_templates>>
histVars == <<calls, run>>
vars == <<cfgVars, tables, screenVars, worker, apiVars, storeVars, histVars, result>>

\* the tables Database.__init__ looks for or creates
AllTables == {"emails", "sent_emails", "drafts", "failed_emails"}

\* compose(): the buttons yielded with disabled=True (btn-export goes with
\* btn-retry and has no part in a run)
ComposedDisabled == {"pause", "resume", "stop", "retry"}

\* the buttons _start_sending and _retry_failed leave disabled
RunningDisabled == {"start", "resume", "back", "retry"}

RecipientLists == {[k \in 1..n |-> k] : n \in 0..MaxRecipients}

\* no worker of the screen is alive.  `cancelled` and `others` tell what the
\* run_worker call that started a worker did to the workers alive then: how
\* many it cancelled and how many it left running beside the new one;
\* `chunks` counts the batches the worker has processed and `ticks` the
\* asyncio.sleep(1) calls that have returned since the last of them
NoWorker ==
    [pc |-> "none", resume |-> FALSE, retry_recipients |-> <<>>,
     recipients |-> <<>>, total_batches |-> 0, batch_num |-> 0, i |-> 0,
     remaining |-> 0, cancelled |-> 0, others |-> 0, chunks |-> 0, ticks |-> 0]

ApiIdle ==
    [pc |-> "idle", total_batches |-> 0, batch_num |-> 0, i |-> 0,
     total_sent |-> 0, total_failed |-> 0, current_email_id |-> NoEmailId,
     remaining |-> 0]

\* no store operation has returned anything yet
NoResult == [op |-> "none"]

NoRun == [kind |-> "none", input |-> <<>>, base_sent |-> 0, first_call |-> 0,
          interrupted |-> FALSE, critical |-> FALSE, n |-> 0]

\* Email(body, subject, sender, recipient, files) as stored by add_email
Template(id) ==
    [id |-> id, subject |-> email_data.subject, sender |-> "sender",
     body |-> email_data.body]

\* the sender section as first saved: no default_to, a bare source address
DefaultSender == [default_to |-> NoAddress,
                  source_email |-> [name |-> "", addr |-> SourceAddress]]

\* SendScreen.__init__ / on_mount -> _reset_state; a new emails.db
Init ==
    /\ frontend \in {"tui", "api"}
    /\ batch_size \in 1..MaxBatchSize
    /\ delay_seconds \in 0..MaxDelay
    /\ use_bcc \in BOOLEAN
    /\ \E R \in RecipientLists :
          /\ frontend = "tui" => Len(R) >= 1
          /\ email_data = [recipients |-> R, subject |-> "s", body |-> "b"]
    /\ configured \in BOOLEAN
    /\ sender = DefaultSender
    /\ tables = AllTables
    /\ is_sending = FALSE
    /\ is_paused = FALSE
    /\ cancel_requested = FALSE
    /\ total_sent = 0
    /\ total_failed = 0
    /\ failed_emails = <<>>
    /\ current_batch_index = 0
    /\ sending_complete = FALSE
    /\ current_email_id = NoEmailId
    /\ disabled = ComposedDisabled
    /\ worker = NoWorker
    /\ api = ApiIdle
    /\ events = <<>>
    /\ emails = {}
    /\ sent_emails = <<>>
    /\ failed_tbl = <<>>
    /\ next_uuid = 1
    /\ ever_templates = {}
    /\ calls = <<>>
    /\ run = NoRun
    /\ result = NoResult

\* ------------------------------------------------------------- the store

\* Database.add_email under `try: ... except Exception: pass`: the row is
\* inserted, or the insert raises and nothing is stored
AddEmailSwallowed(id) ==
    \E inserted \in BOOLEAN :
        /\ emails' = IF inserted THEN emails \cup {Template(id)} ELSE emails
        /\ ever_templates' = IF inserted THEN ever_templates \cup {id}
                             ELSE ever_templates

\* a slip: every batch takes a fresh id
EmailIdForAlwaysFresh(held) == next_uuid

\* "Create or reuse email record": the id the rows of this batch carry, given
\* the id held so far
EmailIdFor(held) == IF held # NoEmailId THEN held ELSE next_uuid

\* the create-or-reuse block shared by _save_to_database,
\* _save_failed_to_database and the API generator
CreateOrReuse(held) ==
    IF held # NoEmailId
    THEN UNCHANGED <<emails, ever_templates, next_uuid>>
    ELSE /\ next_uuid' = next_uuid + 1
         /\ AddEmailSwallowed(next_uuid)

\* SendScreen._save_to_database
SaveToDatabase(batch) ==
    /\ CreateOrReuse(current_email_id)
    /\ current_email_id' = EmailIdFor(current_email_id)
    /\ sent_emails' = sent_emails \o
           SentRows(EmailIdFor(current_email_id), batch, SentTypeArg(use_bcc))
    /\ UNCHANGED failed_tbl

\* SendScreen._save_failed_to_database
SaveFailedToDatabase(batch, error_reason) ==
    /\ CreateOrReuse(current_email_id)
    /\ current_email_id' = EmailIdFor(current_email_id)
    /\ failed_tbl' = failed_tbl \o
           FailedRows(EmailIdFor(current_email_id), batch, error_reason)
    /\ UNCHANGED sent_emails

\* ------------------------------------------------- SendScreen: handlers

\* the event loop can run a handler: no worker, or the worker is not running
UiCanRun == frontend = "tui" /\ worker.pc \in {"none", "scheduled", "sleep"}

\* the workers alive when a handler calls run_worker
Alive == (IF worker.pc # "none" THEN 1 ELSE 0) + worker.others

\* a slip: run_worker without exclusive=True, the workers alive stay so
RunWorkerNotExclusive(resume, retry_recipients) ==
    [NoWorker EXCEPT !.pc = "scheduled", !.resume = resume,
                     !.retry_recipients = retry_recipients,
                     !.others = Alive]

\* run_worker(self._send_emails_worker(...), exclusive=True): the workers of
\* the screen that are alive are cancelled and the new one is scheduled
RunWorker(resume, retry_recipients) ==
    [NoWorker EXCEPT !.pc = "scheduled", !.resume = resume,
                     !.retry_recipients = retry_recipients,
                     !.cancelled = Alive]

\* _start_sending, accepted
StartSending ==
    /\ UiCanRun
    /\ ~is_sending
    /\ run.n < MaxRuns
    /\ is_sending' = TRUE
    /\ is_paused' = FALSE
    /\ cancel_requested' = FALSE
    /\ total_sent' = 0
    /\ total_failed' = 0
    /\ failed_emails' = <<>>
    /\ current_batch_index' = 0
    /\ sending_complete' = FALSE
    /\ disabled' = RunningDisabled
    /\ worker' = RunWorker(FALSE, <<>>)
    /\ run' = [kind |-> "start", input |-> email_data.recipients, base_sent |-> 0,
               first_call |-> Len(calls), interrupted |-> FALSE,
               critical |-> FALSE, n |-> run.n + 1]
    /\ UNCHANGED <<result, cfgVars, tables, current_email_id, apiVars, storeVars, calls>>

\* _start_sending while a run is sending: "Already sending emails"
StartRejected ==
    /\ UiCanRun
    /\ is_sending
    /\ UNCHANGED vars

\* _pause_sending
PauseSending ==
    /\ UiCanRun
    /\ is_sending /\ ~is_paused
    /\ is_paused' = TRUE
    /\ disabled' = disabled \cup {"pause"}
    /\ run' = [run EXCEPT !.interrupted = TRUE]
    /\ UNCHANGED <<result, cfgVars, tables, is_sending, cancel_requested, total_sent, total_failed,
                   failed_emails, current_batch_index, sending_complete,
                   current_email_id, worker, apiVars, storeVars, calls>>

\* _resume_sending
ResumeSending ==
    /\ UiCanRun
    /\ is_paused
    /\ is_paused' = FALSE
    /\ disabled' = (disabled \ {"pause", "stop"}) \cup {"resume"}
    /\ worker' = RunWorker(TRUE, <<>>)
    /\ UNCHANGED <<result, cfgVars, tables, is_sending, cancel_requested, total_sent, total_failed,
                   failed_emails, current_batch_index, sending_complete,
                   current_email_id, apiVars, storeVars, histVars>>

\* _stop_sending
StopSending ==
    /\ UiCanRun
    /\ cancel_requested' = TRUE
    /\ is_paused' = FALSE
    /\ disabled' = disabled \cup {"pause", "resume", "stop"}
    /\ run' = [run EXCEPT !.interrupted = TRUE]
    /\ UNCHANGED <<result, cfgVars, tables, is_sending, total_sent, total_failed, failed_emails,
                   current_batch_index, sending_complete, current_email_id,
                   worker, apiVars, storeVars, calls>>

\* _retry_failed, accepted
RetryFailed ==
    /\ UiCanRun
    /\ failed_emails # <<>>
    /\ ~is_sending
    /\ run.n < MaxRuns
    /\ failed_emails' = <<>>
    /\ total_failed' = 0
    /\ is_sending' = TRUE
    /\ is_paused' = FALSE
    /\ cancel_requested' = FALSE
    /\ current_batch_index' = 0
    /\ sending_complete' = FALSE
    /\ disabled' = RunningDisabled
    /\ worker' = RunWorker(FALSE, FailedRecipients(failed_emails))
    /\ run' = [kind |-> "retry",
               input |-> [k \in 1..Len(failed_emails) |-> failed_emails[k].email],
               base_sent |-> total_sent, first_call |-> Len(calls),
               interrupted |-> FALSE, critical |-> FALSE, n |-> run.n + 1]
    /\ UNCHANGED <<result, cfgVars, tables, total_sent, current_email_id, apiVars, storeVars, calls>>

\* _retry_failed with nothing to retry, or while a run is sending
RetryRejected ==
    /\ UiCanRun
    /\ failed_emails = <<>> \/ is_sending
    /\ UNCHANGED vars

\* --------------------------------------------------- SendScreen: worker

\* a slip: a worker started by resume does not finalise
FinalizeSkippedAfterResume ==
    IF ~is_paused /\ ~worker.resume
    THEN /\ is_sending' = FALSE
         /\ sending_complete' = TRUE
         /\ disabled' = ((disabled \ {"start", "back"})
                            \cup {"pause", "resume", "stop"})
                         \ (IF failed_emails # <<>> THEN {"retry"} ELSE {})
    ELSE UNCHANGED <<is_sending, sending_complete, disabled>>

\* "Sending complete (only if not paused)"
Finalize ==
    IF ~is_paused
    THEN /\ is_sending' = FALSE
         /\ sending_complete' = TRUE
         /\ disabled' = ((disabled \ {"start", "back"})
                            \cup {"pause", "resume", "stop"})
                         \ (IF failed_emails # <<>> THEN {"retry"} ELSE {})
    ELSE UNCHANGED <<is_sending, sending_complete, disabled>>

\* the next iteration of the for loop
AdvanceLoop(w) ==
    [w EXCEPT !.pc = "loop", !.batch_num = @ + 1, !.i = @ + batch_size]

\* a slip: the loop does not look at cancel_requested
LoopStopsIgnoringCancel(w) == w.i >= Len(w.recipients)

\* the for loop ends: range exhausted, or `if self.cancel_requested: break`
LoopStops(w) == w.i >= Len(w.recipients) \/ cancel_requested

\* boto3.client(...) under the outer try: the client is built, or the call
\* raises (no region to resolve, say) and the outer handler takes over
SetupOutcomes == {"built", "raises"}

\* what the provider can answer to a send: without the access key, the secret
\* key, the region or the source address no send is accepted
SendOutcomes == IF configured THEN Outcomes ELSE Failures

\* the worker starts: it picks its recipient list, sets the client up and
\* builds the loop; a set-up that raises lands in `except Exception` ("Critical
\* error") and the worker goes on to the finalisation
WorkerBegin ==
    /\ worker.pc = "scheduled"
    /\ \E setup \in SetupOutcomes :
        IF setup = "raises"
        THEN /\ Finalize
             /\ worker' = NoWorker
             /\ run' = [run EXCEPT !.critical = TRUE]
        ELSE /\ LET recipients == IF worker.retry_recipients # <<>>
                                  THEN worker.retry_recipients
                                  ELSE email_data.recipients
                IN worker' = [worker EXCEPT
                        !.pc = "loop",
                        !.recipients = recipients,
                        !.total_batches = TotalBatches(recipients, batch_size),
                        !.batch_num = current_batch_index + 1,
                        !.i = current_batch_index * batch_size]
             /\ UNCHANGED <<is_sending, sending_complete, disabled, run>>
    /\ UNCHANGED <<result, cfgVars, tables, is_paused, cancel_requested, total_sent, total_failed,
                   failed_emails, current_batch_index, current_email_id, apiVars,
                   storeVars, calls>>

\* top of the for loop: exhausted, cancelled, paused, or the next batch
WorkerLoopTop ==
    /\ worker.pc = "loop"
    /\ IF LoopStops(worker)
       THEN /\ Finalize
            /\ worker' = NoWorker
            /\ UNCHANGED current_batch_index
       ELSE IF is_paused
       THEN /\ current_batch_index' = worker.batch_num - 1
            /\ disabled' = (disabled \cup {"pause", "back"}) \ {"resume", "stop"}
            /\ worker' = NoWorker
            /\ UNCHANGED <<is_sending, sending_complete>>
       ELSE /\ worker' = [worker EXCEPT !.pc = "send"]
            /\ UNCHANGED <<is_sending, sending_complete, current_batch_index,
                           disabled>>
    /\ UNCHANGED <<result, cfgVars, tables, is_paused, cancel_requested, total_sent, total_failed,
                   failed_emails, current_email_id, apiVars, storeVars, histVars>>

\* a slip: the delay loop is entered after the last batch too
DelayAfterEveryBatch(batch_num, total_batches) ==
    /\ ~cancel_requested
    /\ ~is_paused
    /\ delay_seconds >= 1

\* whether the delay loop is entered after a batch
DelayAfter(batch_num, total_batches) ==
    /\ batch_num < total_batches
    /\ ~cancel_requested
    /\ ~is_paused
    /\ delay_seconds >= 1

\* a slip: an exception other than ClientError reaches the outer handler
\* ("Critical error") and ends the loop
AfterBatchAbortingOnException(w, outcome) ==
    IF outcome = "exception"
    THEN [w EXCEPT !.pc = "loop", !.i = Len(w.recipients)]
    ELSE IF DelayAfter(w.batch_num, w.total_batches)
         THEN [w EXCEPT !.pc = "sleep", !.remaining = delay_seconds]
         ELSE AdvanceLoop(w)

\* where the worker goes once the batch's outcome is handled: every handler
\* falls through to the delay check, whatever the outcome
AfterBatch(w, outcome) ==
    IF DelayAfter(w.batch_num, w.total_batches)
    THEN [w EXCEPT !.pc = "sleep", !.remaining = delay_seconds,
                   !.chunks = @ + 1, !.ticks = 0]
    ELSE AdvanceLoop([w EXCEPT !.chunks = @ + 1, !.ticks = 0])

\* the batch is built and sent; its outcome is counted and recorded
WorkerSend ==
    /\ worker.pc = "send"
    /\ \E outcome \in SendOutcomes :
        LET batch == Batch(worker.recipients, worker.i, batch_size) IN
        /\ IF outcome = "ok"
           THEN /\ total_sent' = total_sent + Len(batch)
                /\ SaveToDatabase(batch)
                /\ UNCHANGED <<total_failed, failed_emails>>
           ELSE /\ total_failed' = total_failed + Len(batch)
                /\ failed_emails' = failed_emails \o
                                       FailedEntries(batch, ErrorMsg(outcome))
                /\ SaveFailedToDatabase(batch, ErrorMsg(outcome))
                /\ UNCHANGED total_sent
        /\ calls' = Append(calls, Call(batch, use_bcc, sender, outcome))
        /\ worker' = AfterBatch(worker, outcome)
    /\ current_batch_index' = worker.batch_num
    /\ UNCHANGED <<result, cfgVars, tables, is_sending, is_paused, cancel_requested,
                   sending_complete, disabled, apiVars, run>>

\* asyncio.sleep(1) returns: the next tick of the delay loop
WorkerWake ==
    /\ worker.pc = "sleep"
    /\ worker' = IF worker.remaining - 1 >= 1 /\ ~cancel_requested /\ ~is_paused
                 THEN [worker EXCEPT !.remaining = @ - 1, !.ticks = @ + 1]
                 ELSE AdvanceLoop([worker EXCEPT !.remaining = 0, !.ticks = @ + 1])
    /\ UNCHANGED <<result, cfgVars, tables, screenVars, apiVars, storeVars, histVars>>

\* ------------------------------------------- API: send_emails.event_generator

\* one yielded event with the cumulative totals it carries
Event(name, batch_num, sent, failed) ==
    [event |-> name, batch |-> batch_num, total_sent |-> sent,
     total_failed |-> failed]

\* the generator runs from the top of the for loop to its next yield:
\* batch_start for the next batch, or (loop exhausted) complete
ApiLoopTop(a) ==
    IF a.i < Len(email_data.recipients)
    THEN /\ api' = [a EXCEPT !.pc = "batch_start"]
         /\ events' = Append(events,
                Event("batch_start", a.batch_num, a.total_sent, a.total_failed))
    ELSE /\ api' = [a EXCEPT !.pc = "done"]
         /\ events' = Append(events,
                Event("complete", 0, a.total_sent, a.total_failed))

\* the next iteration of the generator's for loop
ApiAdvance(a) == [a EXCEPT !.batch_num = @ + 1, !.i = @ + batch_size, !.remaining = 0]

\* POST /emails/send: the generator runs up to `yield start`
ApiRequest ==
    /\ frontend = "api"
    /\ api.pc \in {"idle", "done"}
    /\ run.n < MaxRuns
    /\ api' = [ApiIdle EXCEPT
                  !.pc = "start",
                  !.total_batches = TotalBatches(email_data.recipients, batch_size),
                  !.batch_num = 1]
    /\ events' = <<Event("start", 0, 0, 0)>>
    /\ run' = [kind |-> "api", input |-> email_data.recipients, base_sent |-> 0,
               first_call |-> Len(calls), interrupted |-> FALSE,
               critical |-> FALSE, n |-> run.n + 1]
    /\ UNCHANGED <<result, cfgVars, tables, screenVars, worker, storeVars, calls>>

\* after `yield start`: client and Database are set up and the loop is
\* entered, or the set-up raises and the outer handler yields `error`
ApiSetup ==
    /\ api.pc = "start"
    /\ \E setup \in SetupOutcomes :
        IF setup = "raises"
        THEN /\ api' = [api EXCEPT !.pc = "error"]
             /\ events' = Append(events,
                    Event("error", 0, api.total_sent, api.total_failed))
             /\ run' = [run EXCEPT !.critical = TRUE]
        ELSE /\ ApiLoopTop(api)
             /\ UNCHANGED run
    /\ UNCHANGED <<result, cfgVars, tables, screenVars, worker, storeVars, calls>>

\* a slip: the stream ends at the error event, no complete is yielded
ApiAfterErrorSilent ==
    /\ api.pc = "error"
    /\ api' = [api EXCEPT !.pc = "done"]
    /\ UNCHANGED <<result, cfgVars, tables, screenVars, worker, storeVars, histVars, events>>

\* after `yield error`: the generator leaves the handler and yields `complete`
ApiAfterError ==
    /\ api.pc = "error"
    /\ api' = [api EXCEPT !.pc = "done"]
    /\ events' = Append(events,
           Event("complete", 0, api.total_sent, api.total_failed))
    /\ UNCHANGED <<result, cfgVars, tables, screenVars, worker, storeVars, histVars>>

\* whether the API generator records a failed batch in the store
ApiRecordsFailure(outcome) == outcome = "client_error"

\* after `yield batch_start`: the batch is built and sent, its outcome counted
\* and recorded, and batch_complete or batch_error is yielded
ApiSend ==
    /\ api.pc = "batch_start"
    /\ \E outcome \in SendOutcomes :
        LET batch == Batch(email_data.recipients, api.i, batch_size)
            id == EmailIdFor(api.current_email_id)
        IN
        /\ IF outcome = "ok"
           THEN /\ CreateOrReuse(api.current_email_id)
                /\ sent_emails' = sent_emails \o
                                      SentRows(id, batch, SentTypeArg(use_bcc))
                /\ UNCHANGED failed_tbl
                /\ api' = [api EXCEPT !.pc = "batch_done",
                                      !.total_sent = @ + Len(batch),
                                      !.current_email_id = id]
                /\ events' = Append(events,
                       Event("batch_complete", api.batch_num,
                             api.total_sent + Len(batch), api.total_failed))
           ELSE /\ IF ApiRecordsFailure(outcome)
                   THEN /\ CreateOrReuse(api.current_email_id)
                        /\ failed_tbl' = failed_tbl \o
                                             FailedRows(id, batch, ErrorMsg(outcome))
                        /\ api' = [api EXCEPT !.pc = "batch_done",
                                              !.total_failed = @ + Len(batch),
                                              !.current_email_id = id]
                   ELSE /\ UNCHANGED <<emails, ever_templates, next_uuid, failed_tbl>>
                        /\ api' = [api EXCEPT !.pc = "batch_done",
                                              !.total_failed = @ + Len(batch)]
                /\ UNCHANGED sent_emails
                /\ events' = Append(events,
                       Event("batch_error", api.batch_num,
                             api.total_sent, api.total_failed + Len(batch)))
        /\ calls' = Append(calls, Call(batch, use_bcc, sender, outcome))
    /\ UNCHANGED <<result, cfgVars, tables, screenVars, worker, run>>

\* after batch_complete / batch_error: the delay loop yields `waiting`, or the
\* loop goes on to the next batch
ApiAfterBatch ==
    /\ api.pc = "batch_done"
    /\ IF api.batch_num < api.total_batches /\ delay_seconds >= 1
       THEN /\ api' = [api EXCEPT !.pc = "waiting", !.remaining = delay_seconds]
            /\ events' = Append(events,
                   Event("waiting", api.batch_num, api.total_sent, api.total_failed))
       ELSE ApiLoopTop(ApiAdvance(api))
    /\ UNCHANGED <<result, cfgVars, tables, screenVars, worker, storeVars, histVars>>

\* after `yield waiting`: asyncio.sleep(1), then the next tick or the next batch
ApiTick ==
    /\ api.pc = "waiting"
    /\ IF api.remaining - 1 >= 1
       THEN /\ api' = [api EXCEPT !.remaining = @ - 1]
            /\ events' = Append(events,
                   Event("waiting", api.batch_num, api.total_sent, api.total_failed))
       ELSE ApiLoopTop(ApiAdvance(api))
    /\ UNCHANGED <<result, cfgVars, tables, screenVars, worker, storeVars, histVars>>

\* --------------------------- Database.migrate_consolidate_duplicate_emails

GroupKey(t) == <<t.subject, t.sender, t.body>>

\* GROUP BY subject, sender, body HAVING cnt > 1: the id sets of the groups
DuplicateGroups ==
    {g \in {{t.id : t \in {u \in emails : GroupKey(u) = GroupKey(v)}} : v \in emails} :
        Cardinality(g) > 1}

\* the canonical id of each group: email_ids[0] of GROUP_CONCAT(id), whose
\* order SQLite leaves open, so any member of the group
CanonChoices ==
    {c \in [DuplicateGroups -> 1..next_uuid] : \A g \in DuplicateGroups : c[g] \in g}

\* duplicate_ids of all groups: every member but the canonical one
DuplicateIds(canon) == UNION {g \ {canon[g]} : g \in DuplicateGroups}

\* the id a row carries after UPDATE ... SET email_id = canonical WHERE
\* email_id = dup_id has run for every duplicate
RewriteId(canon, id) ==
    IF \E g \in DuplicateGroups : id \in g
    THEN canon[CHOOSE g \in DuplicateGroups : id \in g]
    ELSE id

\* a slip: the sent_emails rows are not rewritten
ConsolidatedSentUntouched(canon) == sent_emails

\* sent_emails after the updates
ConsolidatedSent(canon) ==
    [k \in 1..Len(sent_emails) |->
        [sent_emails[k] EXCEPT !.email_id = RewriteId(canon, @)]]

\* a slip: the failed_emails rows are not rewritten
ConsolidatedFailedUntouched(canon) == failed_tbl

\* failed_emails after the updates
ConsolidatedFailed(canon) ==
    [k \in 1..Len(failed_tbl) |->
        [failed_tbl[k] EXCEPT !.email_id = RewriteId(canon, @)]]

\* a slip: only the highest duplicate id of the store is deleted in a run
ConsolidatedEmailsOneAtATime(canon) ==
    {t \in emails : \/ t.id \notin DuplicateIds(canon)
                    \/ \E d \in DuplicateIds(canon) : d > t.id}

\* emails after DELETE FROM emails WHERE id = dup_id for every duplicate
ConsolidatedEmails(canon) == {t \in emails : t.id \notin DuplicateIds(canon)}

\* the stats dictionary: rowcounts summed over the statements
MigrateStats(canon) ==
    [groups_found |-> Cardinality(DuplicateGroups),
     templates_removed |-> Cardinality(emails) - Cardinality(ConsolidatedEmails(canon)),
     sent_emails_updated |->
         Cardinality({k \in 1..Len(sent_emails) :
                         sent_emails[k].email_id \in DuplicateIds(canon)}),
     failed_emails_updated |->
         Cardinality({k \in 1..Len(failed_tbl) :
                         failed_tbl[k].email_id \in DuplicateIds(canon)})]

\* the whole migration, committed: rows of the non-canonical members are
\* rewritten to the canonical id and the non-canonical members deleted.  The
\* stats are kept in `result` where the history and maintenance front end is
\* the one modelled (with `again`: the operation before was a migration too).
MigrateConsolidate ==
    /\ \E canon \in CanonChoices :
        /\ sent_emails' = ConsolidatedSent(canon)
        /\ failed_tbl' = ConsolidatedFailed(canon)
        /\ emails' = ConsolidatedEmails(canon)
        /\ result' = IF frontend = "history"
                     THEN [op |-> "migrate", stats |-> MigrateStats(canon),
                           again |-> result.op = "migrate"]
                     ELSE result
    /\ UNCHANGED <<cfgVars, tables, screenVars, worker, apiVars, next_uuid, ever_templates,
                   histVars>>

\* the order in which the duplicates are taken: that of the groups and of
\* GROUP_CONCAT, which SQLite leaves open
DuplicateOrders(canon) ==
    {o \in [1..Cardinality(DuplicateIds(canon)) -> DuplicateIds(canon)] :
        \A i, j \in DOMAIN o : o[i] = o[j] => i = j}

\* the three tables as the migrating connection sees them after the first k
\* statements of the loop, each duplicate taking three: UPDATE sent_emails,
\* UPDATE failed_emails, DELETE FROM emails
PendingAfter(canon, order, k) ==
    LET whole == {order[n] : n \in 1..(k \div 3)}
        sentDone == whole \cup (IF k % 3 >= 1 THEN {order[k \div 3 + 1]} ELSE {})
        failedDone == whole \cup (IF k % 3 = 2 THEN {order[k \div 3 + 1]} ELSE {})
    IN [emails |-> {t \in emails : t.id \notin whole},
        sent_emails |->
            [n \in 1..Len(sent_emails) |->
                IF sent_emails[n].email_id \in sentDone
                THEN [sent_emails[n] EXCEPT !.email_id = RewriteId(canon, @)]
                ELSE sent_emails[n]],
        failed_tbl |->
            [n \in 1..Len(failed_tbl) |->
                IF failed_tbl[n].email_id \in failedDone
                THEN [failed_tbl[n] EXCEPT !.email_id = RewriteId(canon, @)]
                ELSE failed_tbl[n]]]

\* a slip: a connection in autocommit mode, every statement is committed
ObservedWithAutocommit(committed, pending) == pending

\* what other connections and later sessions see when the migrating
\* connection goes away before self.conn.commit(): sqlite3.connect with the
\* default isolation level opens a transaction at the first UPDATE, and the
\* only commit is the one after the loop, so the transaction is rolled back
ObservedAfterInterruption(committed, pending) == committed

\* the migration raises or the process dies after k statements of the loop,
\* before the commit
MigrateInterrupted ==
    /\ frontend = "history"
    /\ \E canon \in CanonChoices :
        \E order \in DuplicateOrders(canon) :
        \E k \in 1..(3 * Len(order)) :
            LET seen == ObservedAfterInterruption(
                            [emails |-> emails, sent_emails |-> sent_emails,
                             failed_tbl |-> failed_tbl],
                            PendingAfter(canon, order, k))
            IN /\ emails' = seen.emails
               /\ sent_emails' = seen.sent_emails
               /\ failed_tbl' = seen.failed_tbl
               /\ result' = [op |-> "migrate_interrupted", statements |-> k]
    /\ UNCHANGED <<cfgVars, tables, screenVars, worker, apiVars, next_uuid, ever_templates,
                   histVars>>

\* ------------------------------------------------ addresses as strings

\* An address as a caller may write it: mailbox `name`, written in upper case
\* or not, with surrounding blanks or not.  Name 0 is the string that holds no
\* character but blanks: "" unpadded, "  " padded.
Addr(name, upper, padded) == [name |-> name, upper |-> upper, padded |-> padded]

\* str.strip()
Strip(a) == [a EXCEPT !.padded = FALSE]

\* str.lower()
Lower(a) == [a EXCEPT !.upper = FALSE]

\* bool(s): a string is true unless it is empty
Truthy(a) == a.name # 0 \/ a.padded

RawAddresses ==
    {Addr(n, u, p) : n \in 1..MaxNames, u \in BOOLEAN, p \in BOOLEAN}
        \cup {Addr(0, FALSE, p) : p \in BOOLEAN}

PlainAddresses == {Addr(n, FALSE, FALSE) : n \in 1..MaxNames}

\* what sent_to / recipient hold: whatever the caller passed to the send
StoredAddresses ==
    IF frontend = "compare" THEN {a \in RawAddresses : a.name # 0}
    ELSE PlainAddresses

\* ------------------------------------ Database: inserts of earlier sessions

\* (subject, body) of the templates earlier sessions stored
TemplateKeys == {<<"s", "b">>, <<"s", "c">>, <<"t", "b">>}

\* the template ids a comparison is scoped to and its history refers to
ScopeIds == {1, 2}

\* Database.add_email, the insert succeeding
AddEmail ==
    /\ frontend = "history"
    /\ next_uuid <= MaxTemplates
    /\ \E key \in TemplateKeys :
          emails' = emails \cup {[id |-> next_uuid, subject |-> key[1],
                                  sender |-> "sender", body |-> key[2]]}
    /\ ever_templates' = ever_templates \cup {next_uuid}
    /\ next_uuid' = next_uuid + 1
    /\ result' = NoResult
    /\ UNCHANGED <<cfgVars, tables, screenVars, worker, apiVars, sent_emails, failed_tbl,
                   histVars>>

\* Database.add_sent
AddSent ==
    /\ frontend \in {"history", "compare"}
    /\ Len(sent_emails) < MaxSentRows
    /\ \E id \in (IF frontend = "compare" THEN ScopeIds ELSE 1..MaxTemplates),
          a \in StoredAddresses :
          sent_emails' = sent_emails \o SentRows(id, <<a>>, "bcc")
    /\ result' = NoResult
    /\ UNCHANGED <<cfgVars, tables, screenVars, worker, apiVars, emails, failed_tbl,
                   next_uuid, ever_templates, histVars>>

\* Database.add_failed_email
AddFailedEmail ==
    /\ frontend = "history"
    /\ Len(failed_tbl) < MaxFailedRows
    /\ \E id \in 1..MaxTemplates, a \in StoredAddresses :
          failed_tbl' = failed_tbl \o FailedRows(id, <<a>>, "rejected")
    /\ result' = NoResult
    /\ UNCHANGED <<cfgVars, tables, screenVars, worker, apiVars, emails, sent_emails,
                   next_uuid, ever_templates, histVars>>

\* ------------------------------------ Database.get_grouped_emails_summary

\* groups[group_key]: the templates that share (subject, sender, body)
Groups == {{t \in emails : GroupKey(t) = GroupKey(v)} : v \in emails}

\* groups[group_key]["email_ids"], as a set
EmailIds(g) == {t.id : t \in g}

\* a slip: COUNT(sent_to) without DISTINCT
SentCountRows(ids) ==
    Cardinality({k \in 1..Len(sent_emails) : sent_emails[k].email_id \in ids})

\* SELECT COUNT(DISTINCT sent_to) FROM sent_emails WHERE email_id IN (ids)
SentCount(ids) ==
    Cardinality({sent_emails[k].sent_to :
                    k \in {j \in 1..Len(sent_emails) : sent_emails[j].email_id \in ids}})

\* SELECT MAX(sent_at) ... WHERE email_id IN (ids): sent_at is the time of the
\* insert, so the latest row is the last in rowid order; 0 stands for NULL
LastSent(ids) ==
    LET K == {k \in 1..Len(sent_emails) : sent_emails[k].email_id \in ids}
    IN IF K = {} THEN 0 ELSE CHOOSE k \in K : \A j \in K : j <= k

\* SELECT COUNT(*) FROM failed_emails WHERE email_id IN (ids)
FailedCount(ids) ==
    Cardinality({k \in 1..Len(failed_tbl) : failed_tbl[k].email_id \in ids})

\* one entry of results; primary is email_ids[0]
Campaign(g, primary) ==
    LET t == CHOOSE u \in g : TRUE IN
    [id |-> primary, email_ids |-> EmailIds(g),
     subject |-> t.subject, sender |-> t.sender, body |-> t.body,
     sent_count |-> SentCount(EmailIds(g)),
     failed_count |-> FailedCount(EmailIds(g)),
     last_sent |-> LastSent(EmailIds(g)),
     template_count |-> Cardinality(EmailIds(g))]

\* email_ids[0] of each group: ORDER BY subject, sender leaves the order of
\* the templates of one group open, so any member
PrimaryChoices == {f \in [Groups -> 1..next_uuid] : \A g \in Groups : f[g] \in EmailIds(g)}

\* Database.get_grouped_emails_summary, the entries as a set
GroupedEmailsSummary ==
    /\ frontend = "history"
    /\ \E primary \in PrimaryChoices :
          result' = [op |-> "summary",
                     campaigns |-> {Campaign(g, primary[g]) : g \in Groups}]
    /\ UNCHANGED <<cfgVars, tables, screenVars, worker, apiVars, storeVars, histVars>>

\* --------------------------------- HistoryScreen and failed_emails rows

Reverse(s) == [k \in 1..Len(s) |-> s[Len(s) + 1 - k]]

\* HistoryScreen._retry_failed_emails on a campaign just loaded: the failed
\* rows of its templates (failed_at DESC) become the recipients of
\* app.email_data, each is marked by mark_failed_email_retried, and the send
\* screen is pushed
HistoryRetryFailed ==
    /\ frontend = "history"
    /\ \E g \in Groups :
        LET failed_records ==
                Reverse(SelectSeq(failed_tbl, LAMBDA r : r.email_id \in EmailIds(g)))
            t == CHOOSE u \in g : TRUE
        IN /\ failed_records # <<>>
           /\ email_data' =
                 [recipients |-> [k \in 1..Len(failed_records) |->
                                     failed_records[k].recipient],
                  subject |-> t.subject, body |-> t.body]
           /\ failed_tbl' =
                 [k \in 1..Len(failed_tbl) |->
                     IF failed_tbl[k].email_id \in EmailIds(g)
                     THEN [failed_tbl[k] EXCEPT !.retried = TRUE]
                     ELSE failed_tbl[k]]
    /\ result' = NoResult
    /\ UNCHANGED <<frontend, batch_size, delay_seconds, use_bcc, configured,
                   sender, tables, screenVars, worker, apiVars, emails, sent_emails, next_uuid,
                   ever_templates, histVars>>

\* Database.delete_failed_email(failed_id), the row being the k-th in rowid
\* order
DeleteFailedEmail ==
    /\ frontend = "history"
    /\ \E k \in 1..Len(failed_tbl) :
          failed_tbl' = SubSeq(failed_tbl, 1, k - 1)
                           \o SubSeq(failed_tbl, k + 1, Len(failed_tbl))
    /\ result' = NoResult
    /\ UNCHANGED <<cfgVars, tables, screenVars, worker, apiVars, emails, sent_emails,
                   next_uuid, ever_templates, histVars>>

\* -------------------------------------------- Database.compare_recipients

\* a slip: blank candidates are not filtered out
CurrentSetKeepingBlanks(current_recipients) ==
    {Lower(Strip(current_recipients[k])) : k \in 1..Len(current_recipients)}

\* {r.strip().lower() for r in current_recipients if r.strip()}
CurrentSet(current_recipients) ==
    {Lower(Strip(current_recipients[k])) :
        k \in {j \in 1..Len(current_recipients) :
                  Truthy(Strip(current_recipients[j]))}}

\* get_all_sent_recipients: SELECT DISTINCT sent_to FROM sent_emails
AllSentRecipients == {sent_emails[k].sent_to : k \in 1..Len(sent_emails)}

\* get_sent_recipients_by_email_id
SentRecipientsByEmailId(eid) ==
    {sent_emails[k].sent_to :
        k \in {j \in 1..Len(sent_emails) : sent_emails[j].email_id = eid}}

\* sent_set: the historical addresses of the scope, each through r.lower();
\* <<>> stands for email_ids None or empty, NoEmailId for email_id None
SentSet(email_id, email_ids) ==
    IF email_ids # <<>>
    THEN UNION {{Lower(r) : r \in SentRecipientsByEmailId(email_ids[k])} :
                   k \in 1..Len(email_ids)}
    ELSE IF email_id # NoEmailId
    THEN {Lower(r) : r \in SentRecipientsByEmailId(email_id)}
    ELSE {Lower(r) : r \in AllSentRecipients}

\* the dictionary compare_recipients returns (the two lists as sets), with the
\* arguments of the call
CompareResult(current_recipients, email_id, email_ids) ==
    LET current_set == CurrentSet(current_recipients)
        sent_set == SentSet(email_id, email_ids)
        already_sent == current_set \cap sent_set
        new_recipients == current_set \ sent_set
    IN [op |-> "compare",
        current_recipients |-> current_recipients,
        email_id |-> email_id, email_ids |-> email_ids,
        total |-> Cardinality(current_set),
        already_sent |-> Cardinality(already_sent),
        new_recipients |-> Cardinality(new_recipients),
        already_sent_list |-> already_sent,
        new_recipients_list |-> new_recipients]

CandidateLists ==
    UNION {[1..n -> RawAddresses] : n \in 0..MaxCandidates}

\* email_ids as callers pass it: nothing, one id, or two ids
IdLists ==
    {<<>>} \cup {<<i>> : i \in ScopeIds}
           \cup {p \in ScopeIds \X ScopeIds : p[1] < p[2]}

\* POST /emails/compare, ComparisonModal: Database.compare_recipients.  The
\* call only reads the store, so a second call in the same store state returns
\* what the first returns: the model takes one call per store state.
CompareRecipients ==
    /\ frontend = "compare"
    /\ result = NoResult
    /\ \E current_recipients \in CandidateLists,
          email_id \in {NoEmailId} \cup ScopeIds, email_ids \in IdLists :
          result' = CompareResult(current_recipients, email_id, email_ids)
    /\ UNCHANGED <<cfgVars, tables, screenVars, worker, apiVars, storeVars, histVars>>

NextTui ==
    \/ StartSending
    \/ StartRejected
    \/ PauseSending
    \/ ResumeSending
    \/ StopSending
    \/ RetryFailed
    \/ RetryRejected
    \/ WorkerBegin
    \/ WorkerLoopTop
    \/ WorkerSend
    \/ WorkerWake

NextApi ==
    \/ ApiRequest
    \/ ApiSetup
    \/ ApiAfterError
    \/ ApiSend
    \/ ApiAfterBatch
    \/ ApiTick

Next ==
    \/ NextTui
    \/ NextApi
    \/ MigrateConsolidate

Spec == Init /\ [][Next]_vars

\* ------------------------------------ SendScreen: buttons and the escape key

\* action_go_back: a warning while sending or paused, else the screen is
\* popped; no field of the screen changes
ActionGoBack ==
    /\ UiCanRun
    /\ UNCHANGED vars

\* action_cancel, bound to escape: pause a sending run, stop a paused one,
\* else go back
ActionCancel ==
    \/ is_sending /\ ~is_paused /\ PauseSending
    \/ is_paused /\ StopSending
    \/ ~is_sending /\ ~is_paused /\ ActionGoBack

\* on_button_pressed: a Button that is disabled posts no Pressed message.
\* btn-start and btn-retry are enabled only by the finalisation, so their
\* handlers are not reached while a run is sending
PressStart == "start" \notin disabled /\ StartSending
PressPause == "pause" \notin disabled /\ PauseSending
PressResume == "resume" \notin disabled /\ ResumeSending
PressStop == "stop" \notin disabled /\ StopSending
PressRetry == "retry" \notin disabled /\ RetryFailed
PressBack == "back" \notin disabled /\ ActionGoBack

\* what the user can do on the send screen
UserNext ==
    \/ PressStart
    \/ PressPause
    \/ PressResume
    \/ PressStop
    \/ PressRetry
    \/ PressBack
    \/ ActionCancel

\* the compose screen stores a new email in app.email_data and pushes the
\* installed SendScreen: the instance is the one of the earlier runs and is
\* mounted already, so on_mount and _reset_state do not run again.  The
\* recipient list is taken to stay the same
ProceedToSend ==
    /\ UiCanRun
    /\ ~is_sending /\ ~is_paused
    /\ \E key \in TemplateKeys :
          /\ key # <<email_data.subject, email_data.body>>
          /\ email_data' = [email_data EXCEPT !.subject = key[1], !.body = key[2]]
    /\ UNCHANGED <<frontend, batch_size, delay_seconds, use_bcc, configured,
                   sender, tables, screenVars, worker, apiVars, storeVars,
                   histVars, result>>

\* the send screen driven through its buttons and the escape key
ScreenInit ==
    /\ frontend = "tui"
    /\ batch_size \in 1..MaxBatchSize
    /\ delay_seconds \in 0..MaxDelay
    /\ use_bcc = TRUE
    /\ \E R \in RecipientLists :
          /\ Len(R) >= 1
          /\ email_data = [recipients |-> R, subject |-> "s", body |-> "b"]
    /\ configured \in BOOLEAN
    /\ sender = DefaultSender
    /\ tables = AllTables
    /\ is_sending = FALSE
    /\ is_paused = FALSE
    /\ cancel_requested = FALSE
    /\ total_sent = 0
    /\ total_failed = 0
    /\ failed_emails = <<>>
    /\ current_batch_index = 0
    /\ sending_complete = FALSE
    /\ current_email_id = NoEmailId
    /\ disabled = ComposedDisabled
    /\ worker = NoWorker
    /\ api = ApiIdle
    /\ events = <<>>
    /\ emails = {}
    /\ sent_emails = <<>>
    /\ failed_tbl = <<>>
    /\ next_uuid = 1
    /\ ever_templates = {}
    /\ calls = <<>>
    /\ run = NoRun
    /\ result = NoResult

ScreenNext ==
    \/ UserNext
    \/ ProceedToSend
    \/ WorkerBegin
    \/ WorkerLoopTop
    \/ WorkerSend
    \/ WorkerWake

ScreenSpec == ScreenInit /\ [][ScreenNext]_vars

\* ------------------------------------------- SendScreen: runs left to end

\* _pause_sending, at most once in a run
PauseOnce == ~run.interrupted /\ PauseSending

\* a step of the worker coroutine
WorkerStep ==
    \/ WorkerBegin
    \/ WorkerLoopTop
    \/ WorkerSend
    \/ WorkerWake

\* the send screen with nobody asking to stop
LiveInit ==
    /\ frontend = "tui"
    /\ batch_size \in 1..MaxBatchSize
    /\ delay_seconds \in 0..MaxDelay
    /\ use_bcc = TRUE
    /\ \E R \in RecipientLists :
          /\ Len(R) >= 1
          /\ email_data = [recipients |-> R, subject |-> "s", body |-> "b"]
    /\ configured = TRUE
    /\ sender = DefaultSender
    /\ tables = AllTables
    /\ is_sending = FALSE
    /\ is_paused = FALSE
    /\ cancel_requested = FALSE
    /\ total_sent = 0
    /\ total_failed = 0
    /\ failed_emails = <<>>
    /\ current_batch_index = 0
    /\ sending_complete = FALSE
    /\ current_email_id = NoEmailId
    /\ disabled = ComposedDisabled
    /\ worker = NoWorker
    /\ api = ApiIdle
    /\ events = <<>>
    /\ emails = {}
    /\ sent_emails = <<>>
    /\ failed_tbl = <<>>
    /\ next_uuid = 1
    /\ ever_templates = {}
    /\ calls = <<>>
    /\ run = NoRun
    /\ result = NoResult

LiveNext ==
    \/ StartSending
    \/ PauseOnce
    \/ ResumeSending
    \/ RetryFailed
    \/ WorkerStep

\* the event loop runs a worker that is ready: the worker is a task of the
\* loop, and a task that is scheduled or whose sleep has ended is run
LiveSpec == LiveInit /\ [][LiveNext]_vars /\ WF_vars(WorkerStep)

\* ------------------------------------------------- Database.__init__

\* a slip: every table is created if it does not exist
OpenedCreatingMissing(before) == [tables |-> AllTables, raised |-> FALSE]

\* Database.__init__ on a file holding the tables `before`: create_tables
\* runs iff there is no table emails and issues CREATE TABLE emails, then
\* CREATE TABLE sent_emails, which raises when that table exists (the first
\* CREATE is on disk by then: DDL opens no transaction); drafts and
\* failed_emails are each created iff missing
Opened(before) ==
    IF "emails" \notin before /\ "sent_emails" \in before
    THEN [tables |-> before \cup {"emails"}, raised |-> TRUE]
    ELSE [tables |-> before
                     \cup (IF "emails" \notin before
                           THEN {"emails", "sent_emails"} ELSE {})
                     \cup {"drafts", "failed_emails"},
          raised |-> FALSE]

\* Database(): no statement of __init__ touches a row
OpenStore ==
    /\ frontend = "open"
    /\ tables' = Opened(tables).tables
    /\ result' = [op |-> "open", raised |-> Opened(tables).raised,
                  before |-> tables]
    /\ UNCHANGED <<cfgVars, screenVars, worker, apiVars, storeVars, histVars>>

\* the rows a file may hold before it is opened: a table that does not exist
\* has none
OpenInit ==
    /\ frontend = "open"
    /\ batch_size = 1
    /\ delay_seconds = 0
    /\ use_bcc = TRUE
    /\ email_data = [recipients |-> <<>>, subject |-> "s", body |-> "b"]
    /\ configured = TRUE
    /\ sender = DefaultSender
    /\ tables \in SUBSET AllTables
    /\ is_sending = FALSE
    /\ is_paused = FALSE
    /\ cancel_requested = FALSE
    /\ total_sent = 0
    /\ total_failed = 0
    /\ failed_emails = <<>>
    /\ current_batch_index = 0
    /\ sending_complete = FALSE
    /\ current_email_id = NoEmailId
    /\ disabled = ComposedDisabled
    /\ worker = NoWorker
    /\ api = ApiIdle
    /\ events = <<>>
    /\ \E n \in 0..MaxTemplates :
          /\ n >= 1 => "emails" \in tables
          /\ emails = {[id |-> k, subject |-> "s", sender |-> "sender",
                        body |-> "b"] : k \in 1..n}
          /\ ever_templates = 1..n
          /\ next_uuid = n + 1
    /\ \E n \in 0..MaxSentRows :
          /\ n >= 1 => "sent_emails" \in tables
          /\ sent_emails = [k \in 1..n |->
                               [email_id |-> 1, sent_to |-> k, sent_type |-> "bcc"]]
    /\ \E n \in 0..MaxFailedRows :
          /\ n >= 1 => "failed_emails" \in tables
          /\ failed_tbl = [k \in 1..n |->
                              [email_id |-> 1, recipient |-> k,
                               error_reason |-> "rejected", retried |-> FALSE]]
    /\ calls = <<>>
    /\ run = NoRun
    /\ result = NoResult

OpenNext == OpenStore

OpenSpec == OpenInit /\ [][OpenNext]_vars

\* the store as the history view, the summaries and the maintenance commands
\* see it: no send screen in use, an emails.db that earlier sessions fill
StoreInit(fe) ==
    /\ frontend = fe
    /\ batch_size = 1
    /\ delay_seconds = 0
    /\ use_bcc = TRUE
    /\ email_data = [recipients |-> <<>>, subject |-> "s", body |-> "b"]
    /\ configured = TRUE
    /\ sender = DefaultSender
    /\ tables = AllTables
    /\ is_sending = FALSE
    /\ is_paused = FALSE
    /\ cancel_requested = FALSE
    /\ total_sent = 0
    /\ total_failed = 0
    /\ failed_emails = <<>>
    /\ current_batch_index = 0
    /\ sending_complete = FALSE
    /\ current_email_id = NoEmailId
    /\ disabled = ComposedDisabled
    /\ worker = NoWorker
    /\ api = ApiIdle
    /\ events = <<>>
    /\ emails = {}
    /\ sent_emails = <<>>
    /\ failed_tbl = <<>>
    /\ next_uuid = 1
    /\ ever_templates = {}
    /\ calls = <<>>
    /\ run = NoRun
    /\ result = NoResult

HistoryInit == StoreInit("history")

StoreNext ==
    \/ AddEmail
    \/ AddSent
    \/ AddFailedEmail
    \/ MigrateConsolidate
    \/ MigrateInterrupted
    \/ GroupedEmailsSummary
    \/ HistoryRetryFailed
    \/ DeleteFailedEmail

StoreSpec == HistoryInit /\ [][StoreNext]_vars

\* the send screen and the send stream under every sender configuration, with
\* the longest recipient list and a delay of one second
CallInit ==
    /\ frontend \in {"tui", "api"}
    /\ batch_size \in 1..MaxBatchSize
    /\ delay_seconds = 1
    /\ use_bcc \in BOOLEAN
    /\ email_data = [recipients |-> [k \in 1..MaxRecipients |-> k],
                     subject |-> "s", body |-> "b"]
    /\ configured \in BOOLEAN
    /\ sender \in Senders
    /\ tables = AllTables
    /\ is_sending = FALSE
    /\ is_paused = FALSE
    /\ cancel_requested = FALSE
    /\ total_sent = 0
    /\ total_failed = 0
    /\ failed_emails = <<>>
    /\ current_batch_index = 0
    /\ sending_complete = FALSE
    /\ current_email_id = NoEmailId
    /\ disabled = ComposedDisabled
    /\ worker = NoWorker
    /\ api = ApiIdle
    /\ events = <<>>
    /\ emails = {}
    /\ sent_emails = <<>>
    /\ failed_tbl = <<>>
    /\ next_uuid = 1
    /\ ever_templates = {}
    /\ calls = <<>>
    /\ run = NoRun
    /\ result = NoResult

CallSpec == CallInit /\ [][Next]_vars

CompareInit == StoreInit("compare")

CompareNext ==
    \/ AddSent
    \/ CompareRecipients

CompareSpec == CompareInit /\ [][CompareNext]_vars

\* ------------------------------------------------ history-based vocabulary

\* the provider calls of the run in progress (or just finished)
RunCalls == SubSeq(calls, run.first_call + 1, Len(calls))

CallBatches(cs) == [k \in 1..Len(cs) |-> cs[k].batch]

RECURSIVE Concat(_)
Concat(ss) == IF ss = <<>> THEN <<>> ELSE Head(ss) \o Concat(Tail(ss))

RECURSIVE Addressed(_, _)
\* the number of addresses in the calls of cs whose outcome is in os
Addressed(cs, os) ==
    IF cs = <<>> THEN 0
    ELSE (IF Head(cs).outcome \in os THEN Len(Head(cs).batch) ELSE 0)
         + Addressed(Tail(cs), os)

\* the k-th chunk of R, k counted from 1, as the closed form R[(k-1)b : kb]
Chunks(R, b) ==
    [k \in 1..TotalBatches(R, b) |-> Batch(R, (k - 1) * b, b)]

\* ceil(n / b), b >= 1, without the code's arithmetic
Ceil(n, b) == CHOOSE q \in 0..n : q * b >= n /\ (q = 0 \/ (q - 1) * b < n)

IsPrefix(s, t) == Len(s) <= Len(t) /\ s = SubSeq(t, 1, Len(s))

TuiRun == frontend = "tui" /\ run.kind \in {"start", "retry"}
ApiRun == frontend = "api" /\ run.kind = "api"

\* the SendScreen run is over and was finalised as completed
TuiCompleted ==
    /\ worker.pc = "none"
    /\ ~is_sending /\ sending_complete /\ ~cancel_requested /\ ~is_paused

C3_ChunksPartitionList ==
    LET done == \/ TuiRun /\ ~run.interrupted /\ ~run.critical /\ worker.pc = "none"
                \/ ApiRun /\ ~run.critical /\ api.pc = "done"
        cur == \/ TuiRun /\ ~run.interrupted
               \/ ApiRun
        bs == CallBatches(RunCalls)
    IN
    /\ cur =>
          /\ IsPrefix(Concat(bs), run.input)
          /\ \A k \in 1..(Len(bs) - 1) : Len(bs[k]) = batch_size
          /\ \A k \in 1..Len(bs) : Len(bs[k]) >= 1 /\ Len(bs[k]) <= batch_size
          /\ TotalBatches(run.input, batch_size) = Ceil(Len(run.input), batch_size)
          /\ worker.pc \in {"loop", "send", "sleep"} =>
                worker.total_batches = Ceil(Len(run.input), batch_size)
          /\ api.pc # "idle" =>
                api.total_batches = Ceil(Len(run.input), batch_size)
    /\ done =>
          /\ Concat(bs) = run.input
          /\ Len(bs) = Ceil(Len(run.input), batch_size)

\* a run over three addresses with batch size 2 is over: a full chunk and a
\* shorter last chunk
C3_Witness ==
    /\ ApiRun /\ api.pc = "done"
    /\ Len(run.input) = 3 /\ batch_size = 2
    /\ CallBatches(RunCalls) = <<SubSeq(run.input, 1, 2), SubSeq(run.input, 3, 3)>>

\* ------------------------------------------------------------------ C4
\* C4: for every run (begun by start or by retry) and every chunk index k at
\* which a pause takes effect: while the loop is suspended the chunks before k
\* have been processed, and once the run has been resumed and has completed,
\* the chunks processed are exactly the chunks of the run's input, and
\* total_sent and total_failed are what an uninterrupted run with the same
\* provider behaviour per chunk ends with.
C4_ResumeEqualsUninterrupted ==
    /\ (TuiRun /\ is_paused /\ ~cancel_requested /\ worker.pc = "none") =>
          CallBatches(RunCalls) =
              SubSeq(Chunks(run.input, batch_size), 1, current_batch_index)
    /\ (TuiRun /\ TuiCompleted /\ ~run.critical) =>
          /\ CallBatches(RunCalls) = Chunks(run.input, batch_size)
          /\ total_sent = run.base_sent + Addressed(RunCalls, {"ok"})
          /\ total_failed = Addressed(RunCalls, Failures)

\* ------------------------------------------------------------------ C5
\* C5: once cancel has been requested in a run, no chunk is submitted to the
\* provider any more in that run, and total_sent, total_failed and
\* failed_emails keep the values accumulated up to the request, also when the
\* run is finalised as cancelled.
C5_NoChunkAfterCancel ==
    [][(cancel_requested /\ cancel_requested') =>
          /\ calls' = calls
          /\ total_sent' = total_sent
          /\ total_failed' = total_failed
          /\ failed_emails' = failed_emails]_vars

\* a run cancelled after its first chunk is finalised with chunks left unsent
C5_Witness ==
    /\ TuiRun /\ cancel_requested /\ worker.pc = "none"
    /\ ~is_sending /\ sending_complete
    /\ Len(RunCalls) >= 1
    /\ Len(RunCalls) < TotalBatches(run.input, batch_size)
    /\ total_sent + total_failed = Len(Concat(CallBatches(RunCalls)))

\* ------------------------------------------------------------------ C6
\* C6: cancel requested while the orchestrator is paused (the worker has
\* suspended and returned) leads to the final state cancelled: with the cancel
\* flag set, the pause flag cleared and no worker left to run, the run is
\* finalised (no longer sending, marked finished).
C6_CancelWhilePausedFinalises ==
    (TuiRun /\ cancel_requested /\ ~is_paused /\ worker.pc = "none") =>
        (~is_sending /\ sending_complete)

\* ------------------------------------------------------------------ C7
\* what a step that begins a retry run must satisfy
C7_RetryStep ==
    (run'.n = run.n + 1 /\ run'.kind = "retry") =>
        /\ ~is_sending
        /\ failed_emails # <<>>
        /\ worker'.pc = "scheduled"
        /\ worker'.retry_recipients =
               [k \in 1..Len(failed_emails) |-> failed_emails[k].email]
        /\ total_failed' = 0
        /\ failed_emails' = <<>>
        /\ current_batch_index' = 0
        /\ total_sent' = total_sent
        /\ is_sending'

\* the worker that retry() starts works on the addresses of the failed list
C7_RetryInput ==
    (TuiRun /\ run.kind = "retry" /\ ~worker.resume
        /\ worker.pc \in {"loop", "send", "sleep"}) =>
        worker.recipients = run.input

\* C7: retry() is accepted only when no run is sending and failed_emails is
\* non-empty; it starts a new run whose input is exactly the addresses of
\* failed_emails in their order, resets total_failed to 0, failed_emails to
\* empty and current_batch_index to 0, and leaves total_sent as it was.
C7_RetryStartsNewRun == [](C7_RetryInput) /\ [][C7_RetryStep]_vars

\* after a run that sent chunk 1 and failed chunks 2 and 3, the retry worker
\* is sending, with the earlier total_sent kept
C7_Witness ==
    /\ TuiRun /\ run.kind = "retry" /\ worker.pc = "send" /\ ~worker.resume
    /\ run.input = <<2, 3>>
    /\ worker.recipients = <<2, 3>>
    /\ total_sent = 1 /\ total_failed = 0 /\ failed_emails = <<>>

\* ------------------------------------------------------------------ C8
\* the (recipient, error_reason) pairs a failed call should leave in the store
FailedPairs(c) == [j \in 1..Len(c.batch) |-> <<c.batch[j], ErrorMsg(c.outcome)>>]

\* C8: for every chunk whose build-or-send raises, by a provider error or by
\* any other exception, in the SendScreen and in the API stream alike, exactly
\* one failed_emails row per recipient of the chunk is in the store, all with
\* the chunk's error reason.
C8_FailedChunkRecorded ==
    LET failed == SelectSeq(calls, LAMBDA c : c.outcome \in Failures) IN
    [k \in 1..Len(failed_tbl) |->
        <<failed_tbl[k].recipient, failed_tbl[k].error_reason>>]
      = Concat([k \in 1..Len(failed) |-> FailedPairs(failed[k])])

\* ------------------------------------------------------------------ C9
\* C9: for every chunk the provider accepts, exactly one sent_emails row per
\* recipient of the chunk is in the store (and no failed_emails row), each
\* with send mode 'bcc' when use_bcc is true and 'to' when it is false.
C9_SentRowsCarryMode ==
    LET ok == SelectSeq(calls, LAMBDA c : c.outcome = "ok")
        mode == IF use_bcc THEN "bcc" ELSE "to"
    IN
    /\ [k \in 1..Len(sent_emails) |->
           <<sent_emails[k].sent_to, sent_emails[k].sent_type>>]
         = Concat([k \in 1..Len(ok) |->
                     [j \in 1..Len(ok[k].batch) |-> <<ok[k].batch[j], mode>>]])
    /\ Len(failed_tbl) <= Addressed(calls, Failures)

\* ------------------------------------------------------------------ C10
\* C10: every sent_emails row and every failed_emails row carries the id of a
\* Template that is in the store or was in it before a consolidation removed
\* it, also when the insert of the Template row failed.
C10_RowsReferenceTemplates ==
    /\ \A k \in 1..Len(sent_emails) : sent_emails[k].email_id \in ever_templates
    /\ \A k \in 1..Len(failed_tbl) : failed_tbl[k].email_id \in ever_templates

\* ------------------------------------------------------------------ C11
\* a row with its email_id blanked: what consolidation must leave alone
C11_Rest(row) == [row EXCEPT !.email_id = NoEmailId]

\* C11: a consolidation drops no sent_emails or failed_emails row and changes
\* no field of such a row but email_id (so both row counts stay as they were),
\* adds no template, and deletes a template only if no sent_emails or
\* failed_emails row refers to it after the rewrite.
C11_ConsolidationFrame ==
    [][result'.op = "migrate" =>
          /\ Len(sent_emails') = Len(sent_emails)
          /\ Len(failed_tbl') = Len(failed_tbl)
          /\ \A k \in 1..Len(sent_emails) :
                C11_Rest(sent_emails'[k]) = C11_Rest(sent_emails[k])
          /\ \A k \in 1..Len(failed_tbl) :
                C11_Rest(failed_tbl'[k]) = C11_Rest(failed_tbl[k])
          /\ emails' \subseteq emails
          /\ \A t \in emails \ emails' :
                /\ \A k \in 1..Len(sent_emails') : sent_emails'[k].email_id # t.id
                /\ \A k \in 1..Len(failed_tbl') : failed_tbl'[k].email_id # t.id
      ]_vars

\* a consolidation has removed a template and rewritten a sent_emails row and
\* a failed_emails row that referred to it
C11_Witness ==
    /\ result.op = "migrate"
    /\ result.stats.templates_removed > 0
    /\ result.stats.sent_emails_updated > 0
    /\ result.stats.failed_emails_updated > 0
    /\ Cardinality(emails) > 1

\* ------------------------------------------------------------------ C12
C12_NothingDone ==
    [groups_found |-> 0, templates_removed |-> 0,
     sent_emails_updated |-> 0, failed_emails_updated |-> 0]

\* C12: a consolidation run immediately after another reports zero groups
\* found, zero templates removed and zero rows rewritten, and leaves the three
\* tables exactly as the first run left them.
C12_ConsolidationIdempotent ==
    [][(result.op = "migrate" /\ result'.op = "migrate") =>
          /\ result'.stats = C12_NothingDone
          /\ <<emails, sent_emails, failed_tbl>>' = <<emails, sent_emails, failed_tbl>>
      ]_vars

\* a second run in a row has returned, in a store from which a template has
\* been removed and which still holds rows and another template
C12_Witness ==
    /\ result.op = "migrate"
    /\ result.again
    /\ result.stats = C12_NothingDone
    /\ Cardinality(emails) < Cardinality(ever_templates)
    /\ Cardinality(emails) > 1
    /\ sent_emails # <<>>
    /\ failed_tbl # <<>>

\* ------------------------------------------------------------------ C13
\* what get_grouped_emails_summary reports of each campaign, by its
\* (subject, sender, body): sent_count, failed_count and last_sent
C13_View ==
    {[key |-> <<c.subject, c.sender, c.body>>, sent_count |-> c.sent_count,
      failed_count |-> c.failed_count, last_sent |-> c.last_sent] :
        c \in {Campaign(g, 0) : g \in Groups}}

\* C13: the campaigns get_grouped_emails_summary reports, one per distinct
\* (subject, sender, body), and the sent_count, failed_count and last_sent of
\* each are the same before and after a consolidation, and after it every
\* campaign has template_count 1.
C13_CampaignsSurviveConsolidation ==
    [][result'.op = "migrate" =>
          /\ C13_View' = C13_View
          /\ \A g \in Groups' : Campaign(g, 0)'.template_count = 1
      ]_vars

\* a consolidation has merged a campaign of several templates whose rows it
\* rewrote, and the store holds a second campaign
C13_Witness ==
    /\ result.op = "migrate"
    /\ result.stats.templates_removed > 0
    /\ result.stats.sent_emails_updated > 0
    /\ result.stats.failed_emails_updated > 0
    /\ Cardinality(C13_View) > 1
    /\ \E c \in C13_View : c.sent_count > 0 /\ c.failed_count > 0

\* ------------------------------------------------------------------ C14
\* the ids of the templates that carry a campaign's subject, sender and body
C14_Members(c) ==
    {t.id : t \in {u \in emails : GroupKey(u) = <<c.subject, c.sender, c.body>>}}

\* C14: the summary holds exactly one campaign per distinct (subject, sender,
\* body) among the templates; every template id is in the email_ids of exactly
\* one campaign; a campaign's sent_count is the number of distinct addresses
\* over the sent_emails rows of all its member templates and its failed_count
\* the number of failed_emails rows of its member templates.
C14_SummaryGroupsAndCounts ==
    result.op = "summary" =>
        /\ {<<c.subject, c.sender, c.body>> : c \in result.campaigns}
              = {GroupKey(t) : t \in emails}
        /\ Cardinality(result.campaigns) = Cardinality({GroupKey(t) : t \in emails})
        /\ \A t \in emails :
              Cardinality({c \in result.campaigns : t.id \in c.email_ids}) = 1
        /\ \A c \in result.campaigns :
              /\ c.email_ids = C14_Members(c)
              /\ c.sent_count =
                    Cardinality({a \in PlainAddresses :
                        \E k \in 1..Len(sent_emails) :
                            /\ sent_emails[k].email_id \in C14_Members(c)
                            /\ sent_emails[k].sent_to = a})
              /\ c.failed_count =
                    Cardinality({k \in 1..Len(failed_tbl) :
                                    failed_tbl[k].email_id \in C14_Members(c)})

\* a summary with two campaigns, one of two templates under which the same
\* address was sent to twice, once per template, and counted once
C14_Witness ==
    /\ result.op = "summary"
    /\ Cardinality(result.campaigns) = 2
    /\ \E c \in result.campaigns :
          /\ c.template_count = 2
          /\ c.sent_count = 1
          /\ c.failed_count = 1
          /\ Len(sent_emails) = 2
          /\ sent_emails[1].email_id # sent_emails[2].email_id
          /\ \A k \in 1..2 : sent_emails[k].email_id \in c.email_ids

\* ------------------------------------------------------------------ C15
\* the candidates of a comparison that hold a mailbox, each written without
\* surrounding blanks and in lower case
C15_Normalized(current_recipients) ==
    {Addr(current_recipients[k].name, FALSE, FALSE) :
        k \in {j \in 1..Len(current_recipients) : current_recipients[j].name # 0}}

\* C15: for every candidate list and every scope (one template, a list of
\* templates, or the whole history), the already-sent and the new recipients
\* of a comparison are disjoint, together they are the normalized non-blank
\* candidates, the counts are the sizes of the two lists and total is their
\* sum.
C15_ComparePartitions ==
    result.op = "compare" =>
        /\ result.already_sent_list \cap result.new_recipients_list = {}
        /\ result.already_sent_list \cup result.new_recipients_list
              = C15_Normalized(result.current_recipients)
        /\ result.already_sent = Cardinality(result.already_sent_list)
        /\ result.new_recipients = Cardinality(result.new_recipients_list)
        /\ result.total = result.already_sent + result.new_recipients

\* a comparison scoped to a list of templates whose candidates, one written
\* in upper case with blanks around it, split into one already sent and one new
C15_Witness ==
    /\ result.op = "compare"
    /\ result.email_ids # <<>>
    /\ result.already_sent = 1
    /\ result.new_recipients = 1
    /\ \E k \in 1..Len(result.current_recipients) :
          result.current_recipients[k].upper /\ result.current_recipients[k].padded

\* ------------------------------------------------------------------ C16
\* the sent_emails rows in the scope of a comparison: those of email_ids if it
\* is given, else those of email_id if it is given, else all
C16_InScope(k) ==
    IF result.email_ids # <<>>
    THEN \E j \in 1..Len(result.email_ids) : sent_emails[k].email_id = result.email_ids[j]
    ELSE IF result.email_id # NoEmailId
    THEN sent_emails[k].email_id = result.email_id
    ELSE TRUE

\* C16: a comparison classifies a candidate as already sent exactly when some
\* historical address of the scope is the same mailbox once both are trimmed
\* and lower-cased, so a stored address that differs from the candidate only
\* by letter case or surrounding blanks still matches.
C16_CompareNormalizesBothSides ==
    result.op = "compare" =>
        result.already_sent_list =
            {Addr(result.current_recipients[i].name, FALSE, FALSE) :
                i \in {j \in 1..Len(result.current_recipients) :
                          /\ result.current_recipients[j].name # 0
                          /\ \E k \in 1..Len(sent_emails) :
                                /\ C16_InScope(k)
                                /\ sent_emails[k].sent_to.name
                                      = result.current_recipients[j].name}}

\* ------------------------------------------------------------------ C17
\* C17: with an incomplete configuration (access key, secret key, region or
\* source address missing) a send fails before any chunk is attempted: the
\* provider is never called, no chunk is counted in total_failed and no
\* failed_emails row is written.
C17_IncompleteConfigFailsFast ==
    ~configured =>
        /\ calls = <<>>
        /\ total_failed = 0
        /\ api.total_failed = 0
        /\ failed_emails = <<>>
        /\ failed_tbl = <<>>

\* ------------------------------------------------------------------ C18
\* the batch events of the stream, in the order yielded
C18_BatchEvents ==
    SelectSeq(events,
        LAMBDA e : e.event \in {"batch_start", "batch_complete", "batch_error"})

\* the events that carry the cumulative totals, in the order yielded
C18_TotalsEvents ==
    SelectSeq(events,
        LAMBDA e : e.event \in {"batch_complete", "batch_error", "complete"})

C19_Rest(row) == [row EXCEPT !.email_id = NoEmailId, !.retried = FALSE]

\* C19: no store operation deletes a sent_emails or failed_emails row (rows
\* are only appended, a row keeping its place and all its fields but the
\* template id consolidation rewrites and the retried flag); the retried flag
\* of a row only goes from false to true, only in the history view's retry,
\* and the send screen's own retry leaves the failed_emails rows as they are.
C19_RowsAppendOnly ==
    [][/\ Len(sent_emails') >= Len(sent_emails)
       /\ \A k \in 1..Len(sent_emails) :
             C11_Rest(sent_emails'[k]) = C11_Rest(sent_emails[k])
       /\ Len(failed_tbl') >= Len(failed_tbl)
       /\ \A k \in 1..Len(failed_tbl) :
             /\ C19_Rest(failed_tbl'[k]) = C19_Rest(failed_tbl[k])
             /\ failed_tbl[k].retried => failed_tbl'[k].retried
             /\ failed_tbl'[k].retried # failed_tbl[k].retried => HistoryRetryFailed
       /\ RetryFailed => failed_tbl' = failed_tbl
      ]_vars

\* ------------------------------------------------------------------ C20
\* the chunks of the run's input that the k-th provider call of the run
\* submitted (addresses of an input are distinct, so at most one)
C20_IndexOf(k) ==
    {n \in 1..Len(Chunks(run.input, batch_size)) :
        Chunks(run.input, batch_size)[n] = RunCalls[k].batch}

C20_Submitted ==
    TuiRun =>
        /\ \A k \in 1..Len(RunCalls) : C20_IndexOf(k) # {}
        /\ \A j, k \in 1..Len(RunCalls) :
              j < k => \A m \in C20_IndexOf(j), n \in C20_IndexOf(k) : m < n
        /\ (is_paused /\ ~cancel_requested /\ worker.pc = "none" /\ ~run.critical) =>
              current_batch_index = Len(RunCalls)

\* a chunk that has been started is taken to its outcome before anything else
\* happens: no request is handled in between
C20_StartedChunkRuns ==
    (frontend = "tui" /\ worker.pc = "send") =>
        /\ Len(calls') = Len(calls) + 1
        /\ <<is_paused, cancel_requested>>' = <<is_paused, cancel_requested>>

\* C20: under any interleaving of pause, resume and cancel requests with the
\* worker loop, every provider call of a run submits a chunk of the run's
\* input, no chunk twice and in strictly increasing index order; a chunk
\* already started when a pause arrives is executed to its outcome; and while
\* the loop is suspended by a pause current_batch_index is the index of the
\* first chunk not yet submitted.
C20_ChunksOnceInOrder == [](C20_Submitted) /\ [][C20_StartedChunkRuns]_vars

\* ------------------------------------------------------------------ C21
\* no worker is left running beside the one the screen tracks
C21_OneLoop == frontend = "tui" => Alive <= 1

\* while a run is sending no start and no retry is accepted (no new run
\* begins and the counters and flags a start or a retry resets are not reset
\* by a handler), and a worker is started only by resume
C21_NoStartWhileSending ==
    (frontend = "tui" /\ is_sending) =>
        /\ run'.n = run.n
        /\ (worker'.pc = "scheduled" /\ worker' # worker) =>
              /\ worker'.resume
              /\ is_paused
              /\ <<is_sending, cancel_requested, total_sent, total_failed,
                   failed_emails, current_batch_index, sending_complete>>'
                    = <<is_sending, cancel_requested, total_sent, total_failed,
                        failed_emails, current_batch_index, sending_complete>>

\* C21: under any interleaving of start, pause, resume, stop and retry with
\* the worker steps at most one worker loop of the screen is alive; a start or
\* a retry issued while a run is sending is rejected and changes no field; a
\* resume cancels the loop it finds alive, so that no two loops send chunks of
\* one run.
C21_SingleWorker == [](C21_OneLoop) /\ [][C21_NoStartWhileSending]_vars

\* a loop started by a resume that found the earlier loop of the run still
\* alive (waiting between two chunks) and cancelled it is sending a chunk
C21_Witness ==
    /\ frontend = "tui"
    /\ worker.pc = "send"
    /\ worker.resume
    /\ worker.cancelled = 1
    /\ worker.batch_num > 1

\* ------------------------------------------------------------------ C22
\* the addresses of a sequence of recipients
C22_Range(s) == {s[k] : k \in 1..Len(s)}

\* C22: in a run begun by retry every address submitted to the provider, in
\* chunks processed after a pause and a resume too, is one of the failed
\* recipients the run was started with; while the run is suspended by a pause
\* the chunks submitted are the first chunks of that list, and once the run is
\* resumed and over (not cancelled) they are exactly its chunks.
C22_RetryKeepsItsList ==
    (TuiRun /\ run.kind = "retry") =>
        /\ \A k \in 1..Len(RunCalls) :
              C22_Range(RunCalls[k].batch) \subseteq C22_Range(run.input)
        /\ IsPrefix(CallBatches(RunCalls), Chunks(run.input, batch_size))
        /\ (TuiCompleted /\ ~run.critical) =>
              CallBatches(RunCalls) = Chunks(run.input, batch_size)

\* ------------------------------------------------------------------ C23
\* the template id the run in progress holds
C23_Held == IF frontend = "api" THEN api.current_email_id ELSE current_email_id

\* the ids of the rows a step appends to the two tables
C23_Appended ==
    {sent_emails'[k].email_id : k \in Len(sent_emails) + 1 .. Len(sent_emails')}
        \cup {failed_tbl'[k].email_id : k \in Len(failed_tbl) + 1 .. Len(failed_tbl')}

C23_Step ==
    frontend \in {"tui", "api"} =>
        /\ Cardinality(emails' \ emails) <= 1
        /\ emails' \ emails # {} =>
              /\ Len(calls') = Len(calls) + 1
              /\ C23_Held = NoEmailId
              /\ \A t \in emails' \ emails : t.id = C23_Held'
        /\ (C23_Held # NoEmailId /\ run'.n = run.n) => C23_Held' = C23_Held
        /\ C23_Appended \subseteq {C23_Held'}
        /\ C23_Appended # {} => Len(calls') = Len(calls) + 1

\* C23: in a run a template is created only with a chunk's outcome, never
\* before the first, and only while the run holds no template id, which the
\* new template's id then becomes; the id held does not change for the rest
\* of the run, pauses and resumes included, so at most one template is
\* created; every sent_emails and failed_emails row the run writes carries
\* the id held.
C23_OneTemplatePerRun == [][C23_Step]_vars

\* a run that was paused and resumed has written sent rows before and after
\* the pause and a failed row, all under the one template it created
C23_Witness ==
    /\ TuiRun /\ run.kind = "start" /\ run.n = 1
    /\ run.interrupted /\ TuiCompleted
    /\ Cardinality(emails) = 1
    /\ Len(sent_emails) >= 2
    /\ failed_tbl # <<>>
    /\ \A k \in 1..Len(sent_emails) : sent_emails[k].email_id = current_email_id
    /\ \A k \in 1..Len(failed_tbl) : failed_tbl[k].email_id = current_email_id
    /\ \A t \in emails : t.id = current_email_id

\* ------------------------------------------------------------------ C24
\* C24: when a consolidation is interrupted, by an error or by the end of the
\* process, anywhere between its first rewrite and its commit, the store seen
\* afterwards is the store as it was before the consolidation began (or the
\* whole consolidation, never a part of it), and holds no sent_emails or
\* failed_emails row that names a template the consolidation deleted.
C24_InterruptedConsolidationInvisible ==
    [][result'.op = "migrate_interrupted" =>
          /\ \/ <<emails, sent_emails, failed_tbl>>' = <<emails, sent_emails, failed_tbl>>
             \/ \E canon \in CanonChoices :
                   <<emails, sent_emails, failed_tbl>>'
                       = <<ConsolidatedEmails(canon), ConsolidatedSent(canon),
                           ConsolidatedFailed(canon)>>
          /\ \A t \in emails \ emails' :
                /\ \A k \in 1..Len(sent_emails') : sent_emails'[k].email_id # t.id
                /\ \A k \in 1..Len(failed_tbl') : failed_tbl'[k].email_id # t.id
      ]_vars

\* a consolidation was interrupted after it had rewritten the rows of a
\* duplicate and deleted it, in a store of two duplicates with a sent row and
\* a failed row that name them; the duplicates and the rows are as before
C24_Witness ==
    /\ result.op = "migrate_interrupted"
    /\ result.statements >= 3
    /\ \E g \in DuplicateGroups :
          /\ Cardinality(g) = 3
          /\ \E k \in 1..Len(sent_emails) : sent_emails[k].email_id \in g
          /\ \E k \in 1..Len(failed_tbl) : failed_tbl[k].email_id \in g

\* ------------------------------------------------------------------ C25
C25_Pending == is_paused \/ cancel_requested

\* SendScreen worker, step by step
C25_TuiStep ==
    frontend = "tui" =>
        \* the next chunk of a loop that has processed one starts after
        \* delay_seconds ticks, and only with no pause or cancel pending
        /\ (worker.pc = "loop" /\ worker'.pc = "send") =>
              /\ ~C25_Pending
              /\ worker.chunks > 0 => worker.ticks = delay_seconds
        \* after a chunk that is not the last, nothing pending: the wait begins
        /\ (worker.pc = "send" /\ ~C25_Pending /\ delay_seconds >= 1
                /\ worker.i + batch_size < Len(worker.recipients)) =>
              worker'.pc = "sleep"
        \* a tick with nothing pending and ticks left: the wait goes on
        /\ (worker.pc = "sleep" /\ worker'.pc = "sleep" /\ worker' # worker) =>
              /\ ~C25_Pending
              /\ worker'.ticks = worker.ticks + 1
              /\ worker'.ticks < delay_seconds
        \* a tick with a pause or a cancel pending ends the wait
        /\ (worker.pc = "sleep" /\ C25_Pending /\ worker'.pc # "scheduled") =>
              worker'.pc \in {"sleep", "loop"} /\ (worker' # worker => worker'.pc = "loop")

\* no wait follows the last chunk
C25_TuiWaits ==
    (frontend = "tui" /\ worker.pc = "sleep") =>
        /\ worker.i + batch_size < Len(worker.recipients)
        /\ worker.ticks < delay_seconds

\* API generator: exactly delay_seconds waiting events before every
\* batch_start but the first, directly after the outcome of the batch before;
\* none before complete
C25_ApiWaits ==
    ApiRun =>
        \A k \in 1..Len(events) :
            /\ (events[k].event = "batch_start" /\ events[k].batch > 1) =>
                  /\ k - delay_seconds - 1 >= 1
                  /\ \A j \in 1..delay_seconds : events[k - j].event = "waiting"
                  /\ events[k - delay_seconds - 1].event
                        \in {"batch_complete", "batch_error"}
            /\ (events[k].event = "batch_start" /\ events[k].batch = 1) =>
                  events[k - 1].event = "start"
            /\ events[k].event = "complete" => events[k - 1].event # "waiting"

\* C25: after each chunk but the last, with no pause or cancel pending, the
\* loop waits through delay_seconds one-second ticks before it starts the next
\* chunk; no wait follows the last chunk; a pause or a cancel that arrives
\* during the wait ends it at the next tick and the next chunk is not started.
C25_DelayBetweenChunks ==
    [](C25_TuiWaits /\ C25_ApiWaits) /\ [][C25_TuiStep]_vars

\* a loop that waited its two ticks after a chunk is sending the next one
C25_Witness ==
    /\ frontend = "tui"
    /\ delay_seconds = MaxDelay
    /\ worker.pc = "send"
    /\ worker.chunks > 0
    /\ worker.ticks = MaxDelay
    /\ ~run.interrupted

\* ------------------------------------------------------------------- C26

\* the address a message is visibly addressed to: the configured default-to
\* address, or the source address without its display name when none is set
C26_ConfiguredTo ==
    IF sender.default_to # NoAddress THEN sender.default_to
    ELSE sender.source_email.addr

\* C26: for every provider call, with use_bcc the chunk's recipients are
\* exactly the BCC destinations and the only To destination is the configured
\* default-to address (the bare source address when unset); without use_bcc
\* the chunk's recipients are exactly the To destinations and there are no
\* BCC destinations; in both modes the To header of the message is that one
\* configured address and no recipient of the chunk
C26_ProviderCallDestinations ==
    \A k \in 1..Len(calls) :
        LET c == calls[k] IN
        /\ use_bcc => /\ c.destination.BccAddresses = c.batch
                      /\ c.destination.ToAddresses = <<C26_ConfiguredTo>>
        /\ ~use_bcc => /\ c.destination.ToAddresses = c.batch
                       /\ c.destination.BccAddresses = <<>>
        /\ c.to_header = C26_ConfiguredTo
        /\ \A j \in 1..Len(c.batch) : c.to_header # c.batch[j]

\* a two-address chunk was sent in BCC mode with no default-to address and a
\* source written with a display name, and later a chunk went out
C26_Witness ==
    /\ use_bcc
    /\ sender.default_to = NoAddress
    /\ sender.source_email.name = "Name"
    /\ Len(calls) >= 2
    /\ Len(calls[1].batch) = 2
    /\ calls[1].outcome = "ok"
    /\ calls[1].destination.ToAddresses = <<SourceAddress>>

\* ------------------------------------------------------------------- C27

\* the step is an opening of the store
C27_Opening == frontend = "open" /\ result'.op = "open"

\* C27: after the store is opened the tables of all four record kinds exist,
\* whatever subset of them existed before; opening keeps every row there was;
\* opening a store that has just been opened leaves it as it is
C27_OpenCreatesEveryTable ==
    /\ [](result.op = "open" => tables = AllTables)
    /\ [][C27_Opening =>
            /\ emails' = emails
            /\ sent_emails' = sent_emails
            /\ failed_tbl' = failed_tbl
            /\ result.op = "open" => tables' = tables]_vars

\* ------------------------------------------------------------------- C28

\* a run is marked as sending and no worker is running or scheduled
C28_Orphaned == frontend = "tui" /\ is_sending /\ worker.pc = "none"

\* C28: whenever a run is marked as sending and no worker is running or
\* scheduled, some action the user still has (a button that is enabled, or
\* escape) starts a worker or finalises the run
C28_OrphanedRunHasWayOut ==
    C28_Orphaned => ENABLED (UserNext /\ (worker'.pc # "none" \/ ~is_sending'))

\* ------------------------------------------------------------------- C29

\* the templates the rows appended by a step refer to
C29_Referenced ==
    {t \in emails' :
        \/ \E k \in Len(sent_emails) + 1 .. Len(sent_emails') :
              sent_emails'[k].email_id = t.id
        \/ \E k \in Len(failed_tbl) + 1 .. Len(failed_tbl') :
              failed_tbl'[k].email_id = t.id}

\* C29: in a run begun by start() on a send screen that has finished an
\* earlier run, every template that a sent_emails or failed_emails row
\* written by the new run refers to has the subject and the body of the email
\* the new run sends
C29_SecondRunRowsUnderItsTemplate ==
    [][(frontend = "tui" /\ run.kind = "start" /\ run.n >= 2) =>
          \A t \in C29_Referenced :
              t.subject = email_data.subject /\ t.body = email_data.body]_vars

\* ------------------------------------------------------------------- C30

\* the chunks of the list of the run in progress
C30_Chunks ==
    {Batch(run.input, (k - 1) * batch_size, batch_size) :
        k \in 1..TotalBatches(run.input, batch_size)}

\* the run numbered n has ended as completed, every chunk of its list having
\* been submitted in the run (unless the client set-up raised)
C30_Completed(n) ==
    /\ run.n = n
    /\ worker.pc = "none"
    /\ ~is_sending /\ sending_complete
    /\ run.critical \/
          \A c \in C30_Chunks : \E k \in 1..Len(RunCalls) : RunCalls[k].batch = c

C30_PausesResumed == [](is_paused => <>~is_paused)

====
